---- MODULE Spec2Model ----
(***************************************************************************)
(* Model of fava_classy_portfolio/__init__.py: the portfolio tree builder  *)
(* (_portfolio_data), its allocation pass, the rowspan flattener           *)
(* (insert_rowspans) and the view loop of portfolio_accounts.              *)
(*                                                                         *)
(* Representation.  A Python dict is a function on strings, a list or a    *)
(* tuple is a sequence.  A Decimal amount is an integer number of units;   *)
(* an allocation (a Decimal rounded to 2 places) is an integer number of   *)
(* hundredths of a percent (2500 is 25.00).  The unrounded                 *)
(* gain_loss_percentage is kept exactly, as a fraction [num, den].         *)
(* A value that may be Python's None is wrapped: None is <<>>, a value v   *)
(* is <<v>>.  Decimal's 28-digit context precision is not modelled: the    *)
(* quotients of the amounts used here are far from its limit.              *)
(***************************************************************************)
EXTENDS Integers, Sequences, FiniteSets, TLC

VARIABLES
    config,          \* self.config: the configured views, (opt_key, pattern)
    matched,         \* per view, the account names its pattern matches
    portfolios,      \* portfolio_accounts: the list being returned
    optIdx,          \* number of options the for loop of line 63 has finished
    pc,              \* position of portfolio_accounts
    selected_nodes,  \* _portfolio_data: the nodes argument (account names)
    nodeIdx,         \* number of nodes the for loop of line 235 has taken
    portfolio_tree,  \* _portfolio_data: portfolio_tree
    errors,          \* _portfolio_data: errors
    exc              \* the exception caught at line 85, if any

vars == <<config, matched, portfolios, optIdx, pc, selected_nodes, nodeIdx,
          portfolio_tree, errors, exc>>

(***************************************************************************)
(* Bounds of the model.                                                    *)
(***************************************************************************)
MaxNodes == 3        \* longest node list of a single view (Spec)
MaxViews == 2        \* most views of a configuration (SpecViews)
MaxViewNodes == 1    \* longest node list of a view under SpecViews

ZERO == 0
None == <<>>
Some(v) == <<v>>

RECURSIVE SumOver(_, _)
SumOver(S, f) ==
    IF S = {} THEN 0
    ELSE LET x == CHOOSE y \in S : TRUE IN f[x] + SumOver(S \ {x}, f)

SeqsUpTo(S, n) == UNION {[1..k -> S] : k \in 0..n}
NoDuplicates(s) == \A i, j \in 1..Len(s) : s[i] = s[j] => i = j

(***************************************************************************)
(* The ledger snapshot: options, commodity metadata and account nodes.     *)
(* A node carries what the beancount/fava collaborators answer for it:     *)
(*   balance  the keys of node.balance, (currency, cost) with cost None    *)
(*            or (number, currency)                                        *)
(*   cost     the items of node.balance.reduce(convert.get_cost)           *)
(*   rate     the price-map rate from the first cost currency to the       *)
(*            operating currency at the date, None when there is none      *)
(*   latest   prices.get_latest_price for the first balance key            *)
(*   market   reduce(convert_position, ...).get(operating_currency, ZERO)  *)
(***************************************************************************)
operating_currency == "USD"

commodity_dict ==
    [c \in {"VTI", "VB", "VEUR", "BND"} |->
        CASE c = "VTI"  -> ("asset-class" :> "stock") @@ ("asset-subclass" :> "large")
          [] c = "VB"   -> ("asset-class" :> "stock") @@ ("asset-subclass" :> "small")
          [] c = "VEUR" -> ("asset-class" :> "stock") @@ ("asset-subclass" :> "intl")
          [] c = "BND"  -> ("asset-class" :> "bond")]

NoPrice == <<None, None>>

Node(name, balance, cost, rate, latest, market) ==
    [name |-> name, balance |-> balance, cost |-> cost, rate |-> rate,
     latest |-> latest, market |-> market]

Accounts ==
    {"Assets:A", "Assets:B", "Assets:C", "Assets:D", "Liabilities:E", "Assets:F",
     "Assets:G", "Assets:H", "Assets:I", "Assets:J", "Assets:K", "Assets:L"}

ledger ==
    [a \in Accounts |->
        CASE a = "Assets:A" ->       \* stock/large, cost 100, no price known
               Node(a, << <<"VTI", <<100, "USD">> >> >>, << <<"USD", 100>> >>,
                    None, NoPrice, 100)
          [] a = "Assets:B" ->       \* bond, no subclass tag, cost 300, no price
               Node(a, << <<"BND", <<300, "USD">> >> >>, << <<"USD", 300>> >>,
                    None, NoPrice, 300)
          [] a = "Assets:C" ->       \* stock/small, cost 1, no price
               Node(a, << <<"VB", <<1, "USD">> >> >>, << <<"USD", 1>> >>,
                    None, NoPrice, 1)
          [] a = "Assets:D" ->       \* stock/large, cost 20, priced, worth 31
               Node(a, << <<"VTI", <<20, "USD">> >> >>, << <<"USD", 20>> >>,
                    None, <<Some("2024-01-02"), Some(31)>>, 31)
          [] a = "Liabilities:E" ->  \* cash debt held without cost, -100
               Node(a, << <<"USD", None>> >>, << <<"USD", -100>> >>,
                    None, NoPrice, -100)
          [] a = "Assets:F" ->       \* cost in EUR with no rate to USD
               Node(a, << <<"VEUR", <<50, "EUR">> >> >>, << <<"EUR", 50>> >>,
                    None, NoPrice, 0)
          [] a = "Assets:G" ->       \* empty balance
               Node(a, << >>, << >>, None, NoPrice, 0)
          [] a = "Assets:H" ->       \* non-empty balance, no cost entries
               Node(a, << <<"VTI", <<0, "USD">> >> >>, << >>,
                    None, NoPrice, 0)
          [] a = "Assets:I" ->       \* cost basis 0, priced, worth 5
               Node(a, << <<"BND", <<0, "USD">> >> >>, << <<"USD", 0>> >>,
                    None, <<Some("2024-01-02"), Some(5)>>, 5)
          [] a = "Assets:J" ->       \* stock/small, cost basis 0, no price
               Node(a, << <<"VB", <<0, "USD">> >> >>, << <<"USD", 0>> >>,
                    None, NoPrice, 0)
          [] a = "Assets:K" ->       \* two commodities, costs in USD and EUR
               Node(a, << <<"VTI", <<7, "USD">> >>, <<"BND", <<3, "EUR">> >> >>,
                    << <<"USD", 7>>, <<"EUR", 3>> >>,
                    None, <<Some("2024-01-02"), Some(9)>>, 9)
          [] a = "Assets:L" ->       \* EUR cash, cost converted at rate 2
               Node(a, << <<"EUR", None>> >>, << <<"EUR", 10>> >>,
                    Some(2), NoPrice, 20)]

(***************************************************************************)
(* Classification of a node (lines 239-252, 444-457).                      *)
(***************************************************************************)
node_commodity(node) ==
    IF Len(node.balance) # 0
    THEN LET currencies == [i \in 1..Len(node.balance) |-> node.balance[i][1]]
             ref_currency == currencies[1]
         IN  IF \E i \in 1..Len(currencies) : currencies[i] # ref_currency
             THEN "mixed_commodities"
             ELSE ref_currency
    ELSE ""

asset_class_of(commodity) ==
    IF commodity \in DOMAIN commodity_dict
       /\ "asset-class" \in DOMAIN commodity_dict[commodity]
    THEN commodity_dict[commodity]["asset-class"]
    ELSE "noclass"

asset_subclass_of(commodity) ==
    IF commodity \in DOMAIN commodity_dict
       /\ "asset-subclass" \in DOMAIN commodity_dict[commodity]
    THEN commodity_dict[commodity]["asset-subclass"]
    ELSE "nosubclass"

(***************************************************************************)
(* Lazy creation of the class and subclass nodes (lines 254-279).          *)
(***************************************************************************)
new_portfolio_tree == [portfolio_total |-> ZERO, asset_classes |-> <<>>]

with_asset_class(tree, asset_class) ==
    IF asset_class \notin DOMAIN tree.asset_classes
    THEN [tree EXCEPT !.asset_classes =
            (asset_class :> [portfolio_allocation |-> ZERO,
                             asset_class_total |-> ZERO,
                             asset_subclasses |-> <<>>]) @@ @]
    ELSE tree

with_asset_subclass(tree, asset_class, asset_subclass) ==
    IF asset_subclass \notin DOMAIN tree.asset_classes[asset_class].asset_subclasses
    THEN [tree EXCEPT !.asset_classes[asset_class].asset_subclasses =
            (asset_subclass :> [asset_subclass_total |-> ZERO,
                                portfolio_allocation |-> ZERO,
                                asset_subclass_asset_class_allocation |-> ZERO,
                                accounts |-> <<>>]) @@ @]
    ELSE tree

(***************************************************************************)
(* The value resolver calls (lines 145-199).  A raising call returns the   *)
(* exception type in "raised" ("none" when it returns normally).           *)
(***************************************************************************)
NoException == [type |-> "none", in |-> "none"]
Raised(type, in) == [type |-> type, in |-> in]

Fraction(num, den) == [num |-> num, den |-> den]

\* list(account_cost_node.items())[0] raises IndexError on an empty cost node;
\* convert_amount leaves the amount as it is when it finds no rate.
_convert_cost(node) ==
    IF Len(node.cost) = 0
    THEN [raised |-> "IndexError", currency |-> "", number |-> ZERO]
    ELSE LET cur == node.cost[1][1]
             num == node.cost[1][2]
         IN  IF cur = operating_currency
             THEN [raised |-> "none", currency |-> cur, number |-> num]
             ELSE IF node.rate # None
             THEN [raised |-> "none", currency |-> operating_currency,
                   number |-> num * node.rate[1]]
             ELSE [raised |-> "none", currency |-> cur, number |-> num]

_account_latest_price(node) ==
    LET quote_price == node.balance[1]
    IN  IF quote_price[2] = None THEN None ELSE node.latest

\* Decimal division: x / 0 raises DivisionByZero, 0 / 0 InvalidOperation.
_asset_info(node) ==
    LET account_cost_conv == _convert_cost(node)
        account_cost == account_cost_conv.number
        account_balance_market_value == node.market
        account_income_gain_loss_unrealized ==
            account_cost - account_balance_market_value
    IN  IF account_cost_conv.raised # "none"
        THEN [raised |-> account_cost_conv.raised,
              balance_market_value |-> ZERO, income_gain_loss |-> ZERO,
              gain_loss_percentage |-> Fraction(ZERO, 1)]
        ELSE IF account_cost = 0
        THEN [raised |-> IF account_income_gain_loss_unrealized = 0
                         THEN "InvalidOperation" ELSE "DivisionByZero",
              balance_market_value |-> ZERO, income_gain_loss |-> ZERO,
              gain_loss_percentage |-> Fraction(ZERO, 1)]
        ELSE [raised |-> "none",
              balance_market_value |-> account_balance_market_value,
              income_gain_loss |-> account_income_gain_loss_unrealized,
              gain_loss_percentage |->
                  Fraction(account_income_gain_loss_unrealized * (-1) * 100,
                           account_cost)]

(***************************************************************************)
(* One iteration of the node loop of _portfolio_data (lines 235-348).      *)
(***************************************************************************)
\* Mutation of record_account: the record is stored only for a non-zero value
\* (the assignment of lines 319-321 moved under the test of line 324).
record_account_if_valued(tree, asset_class, asset_subclass, account_name, account_data) ==
    IF account_data.balance_market_value # 0
    THEN [tree EXCEPT
            !.asset_classes[asset_class].asset_subclasses[asset_subclass].accounts =
                (account_name :> account_data) @@ @]
    ELSE tree

record_account(tree, asset_class, asset_subclass, account_name, account_data) ==
    [tree EXCEPT
        !.asset_classes[asset_class].asset_subclasses[asset_subclass].accounts =
            (account_name :> account_data) @@ @]

\* Mutation of accumulate: the test of line 324 written as "> 0".
accumulate_positive_only(tree, asset_class, asset_subclass, account_balance_market_value) ==
    LET t1 == IF account_balance_market_value > 0
              THEN [tree EXCEPT !.portfolio_total = @ + account_balance_market_value]
              ELSE tree
    IN  [t1 EXCEPT
            !.asset_classes[asset_class].asset_class_total =
                @ + account_balance_market_value,
            !.asset_classes[asset_class].asset_subclasses[asset_subclass]
                .asset_subclass_total = @ + account_balance_market_value]

\* lines 323-331: the portfolio total is added to only when the value is
\* truthy (non-zero), the class and subclass totals always.
accumulate(tree, asset_class, asset_subclass, account_balance_market_value) ==
    LET t1 == IF account_balance_market_value # 0
              THEN [tree EXCEPT !.portfolio_total = @ + account_balance_market_value]
              ELSE tree
    IN  [t1 EXCEPT
            !.asset_classes[asset_class].asset_class_total =
                @ + account_balance_market_value,
            !.asset_classes[asset_class].asset_subclasses[asset_subclass]
                .asset_subclass_total = @ + account_balance_market_value]

error_message(account_name) ==
    "account " \o account_name \o " has balances not in operating currency "
        \o operating_currency

\* Mutation of currency_error: the mismatch is raised instead of recorded.
currency_error_raises(st, node) ==
    [st EXCEPT !.exc = Raised("FavaAPIError", "_portfolio_data")]

\* lines 342-348
currency_error(st, node) ==
    [st EXCEPT !.errors = Append(@, error_message(node.name))]

valued_account(st, node, asset_class, asset_subclass, account_cost) ==
    LET latest_price == _account_latest_price(node)
    IN  IF latest_price = None \/ latest_price[1] = None
        THEN LET account_data ==
                     [balance_market_value |-> account_cost,
                      income_gain_loss |-> None,
                      gain_loss_percentage |-> None,
                      latest_price_date |-> None]
             IN  [st EXCEPT !.tree =
                     accumulate(record_account(@, asset_class, asset_subclass,
                                               node.name, account_data),
                                asset_class, asset_subclass, account_cost)]
        ELSE LET info == _asset_info(node)
                 account_data ==
                     [balance_market_value |-> info.balance_market_value,
                      income_gain_loss |-> Some(info.income_gain_loss),
                      gain_loss_percentage |-> Some(info.gain_loss_percentage),
                      latest_price_date |-> latest_price[1]]
             IN  IF info.raised # "none"
                 THEN [st EXCEPT !.exc = Raised(info.raised, "_asset_info")]
                 ELSE [st EXCEPT !.tree =
                         accumulate(record_account(@, asset_class, asset_subclass,
                                                   node.name, account_data),
                                    asset_class, asset_subclass,
                                    info.balance_market_value)]

empty_account(st, node, asset_class, asset_subclass) ==
    LET account_data ==
            [balance_market_value |-> ZERO,
             income_gain_loss |-> Some(ZERO),
             gain_loss_percentage |-> Some(Fraction(ZERO, 1)),
             latest_price_date |-> None]
    IN  [st EXCEPT !.tree = record_account(@, asset_class, asset_subclass,
                                           node.name, account_data)]

\* st is [tree, errors, exc]; the result is the state after the iteration.
process_node(st, node) ==
    IF node.balance = <<>>
    THEN st
    ELSE LET commodity == node_commodity(node)
             asset_class == asset_class_of(commodity)
             asset_subclass == asset_subclass_of(commodity)
             st1 == [st EXCEPT !.tree =
                        with_asset_subclass(with_asset_class(@, asset_class),
                                            asset_class, asset_subclass)]
             account_cost_conv == _convert_cost(node)
         IN  IF account_cost_conv.raised # "none"
             THEN [st1 EXCEPT !.exc = Raised(account_cost_conv.raised, "_convert_cost")]
             ELSE LET account_cost_node ==
                          (account_cost_conv.currency :> account_cost_conv.number)
                  IN  IF operating_currency \in DOMAIN account_cost_node
                      THEN valued_account(st1, node, asset_class, asset_subclass,
                                          account_cost_node[operating_currency])
                      ELSE IF Cardinality(DOMAIN account_cost_node) = 0
                      THEN empty_account(st1, node, asset_class, asset_subclass)
                      ELSE currency_error(st1, node)

(***************************************************************************)
(* The allocation pass of _portfolio_data (lines 352-439).                 *)
(***************************************************************************)
\* round(x, 2) of a Decimal rounds half-even; n / d is (n / d) * 100 in
\* hundredths of a percent, d # 0.
RoundHalfEven(n, d) ==
    LET N == IF d < 0 THEN -n ELSE n
        D == IF d < 0 THEN -d ELSE d
        fl == N \div D
        r == N % D
    IN  IF 2 * r < D THEN fl
        ELSE IF 2 * r > D THEN fl + 1
        ELSE IF fl % 2 = 0 THEN fl ELSE fl + 1

\* round((n / d) * 100, 2): the division raises when d is zero.
round_percent(n, d) ==
    IF d = 0
    THEN [raised |-> IF n = 0 THEN "InvalidOperation" ELSE "DivisionByZero",
          value |-> ZERO]
    ELSE [raised |-> "none", value |-> RoundHalfEven(n * 10000, d)]

Returned(v) == [raised |-> "none", value |-> v]

\* lines 355-366
class_portfolio_allocation(tree, c) ==
    IF tree.portfolio_total = ZERO
    THEN Returned(ZERO)
    ELSE round_percent(tree.asset_classes[c].asset_class_total, tree.portfolio_total)

\* lines 373-384
subclass_portfolio_allocation(tree, c, s) ==
    IF tree.portfolio_total = ZERO
    THEN Returned(ZERO)
    ELSE round_percent(tree.asset_classes[c].asset_subclasses[s].asset_subclass_total,
                       tree.portfolio_total)

\* Mutation of subclass_asset_class_allocation: the zero test of the block
\* above (portfolio total) kept for the class denominator.
subclass_asset_class_allocation_portfolio_guard(tree, c, s) ==
    IF tree.portfolio_total = ZERO
    THEN Returned(ZERO)
    ELSE round_percent(tree.asset_classes[c].asset_subclasses[s].asset_subclass_total,
                       tree.asset_classes[c].asset_class_total)

\* lines 386-397
subclass_asset_class_allocation(tree, c, s) ==
    IF tree.asset_classes[c].asset_class_total = ZERO
    THEN Returned(ZERO)
    ELSE round_percent(tree.asset_classes[c].asset_subclasses[s].asset_subclass_total,
                       tree.asset_classes[c].asset_class_total)

\* lines 402-413
account_portfolio_allocation(tree, c, s, a) ==
    IF tree.portfolio_total = ZERO
    THEN Returned(ZERO)
    ELSE round_percent(tree.asset_classes[c].asset_subclasses[s].accounts[a]
                           .balance_market_value,
                       tree.portfolio_total)

\* lines 415-426
account_asset_class_allocation(tree, c, s, a) ==
    IF tree.asset_classes[c].asset_class_total = ZERO
    THEN Returned(ZERO)
    ELSE round_percent(tree.asset_classes[c].asset_subclasses[s].accounts[a]
                           .balance_market_value,
                       tree.asset_classes[c].asset_class_total)

\* Mutation of account_asset_subclass_allocation: the zero test of the block
\* above (class total) kept for the subclass denominator.
account_asset_subclass_allocation_class_guard(tree, c, s, a) ==
    IF tree.asset_classes[c].asset_class_total = ZERO
    THEN Returned(ZERO)
    ELSE round_percent(tree.asset_classes[c].asset_subclasses[s].accounts[a]
                           .balance_market_value,
                       tree.asset_classes[c].asset_subclasses[s].asset_subclass_total)

\* lines 428-439
account_asset_subclass_allocation(tree, c, s, a) ==
    IF tree.asset_classes[c].asset_subclasses[s].asset_subclass_total = ZERO
    THEN Returned(ZERO)
    ELSE round_percent(tree.asset_classes[c].asset_subclasses[s].accounts[a]
                           .balance_market_value,
                       tree.asset_classes[c].asset_subclasses[s].asset_subclass_total)

ClassesOf(tree) == DOMAIN tree.asset_classes
SubclassesOf(tree, c) == DOMAIN tree.asset_classes[c].asset_subclasses
AccountsOf(tree, c, s) == DOMAIN tree.asset_classes[c].asset_subclasses[s].accounts

\* The exception types the divisions of the pass raise on this tree.
allocation_raises(tree) ==
    {class_portfolio_allocation(tree, c).raised : c \in ClassesOf(tree)}
    \cup UNION {
        {subclass_portfolio_allocation(tree, c, s).raised : s \in SubclassesOf(tree, c)}
        \cup {subclass_asset_class_allocation(tree, c, s).raised :
                s \in SubclassesOf(tree, c)}
        \cup UNION {
            UNION {{account_portfolio_allocation(tree, c, s, a).raised,
                    account_asset_class_allocation(tree, c, s, a).raised,
                    account_asset_subclass_allocation(tree, c, s, a).raised} :
                   a \in AccountsOf(tree, c, s)} :
            s \in SubclassesOf(tree, c)} :
        c \in ClassesOf(tree)}

\* The tree with every allocation assigned (a dict assignment adds the key
\* or overwrites it).
allocated_tree(tree) ==
    [tree EXCEPT !.asset_classes =
        [c \in ClassesOf(tree) |->
            [tree.asset_classes[c] EXCEPT
                !.portfolio_allocation = class_portfolio_allocation(tree, c).value,
                !.asset_subclasses =
                    [s \in SubclassesOf(tree, c) |->
                        ("asset_class_allocation" :>
                            subclass_asset_class_allocation(tree, c, s).value)
                        @@
                        [tree.asset_classes[c].asset_subclasses[s] EXCEPT
                            !.portfolio_allocation =
                                subclass_portfolio_allocation(tree, c, s).value,
                            !.accounts =
                                [a \in AccountsOf(tree, c, s) |->
                                    [portfolio_allocation |->
                                        account_portfolio_allocation(tree, c, s, a).value,
                                     asset_class_allocation |->
                                        account_asset_class_allocation(tree, c, s, a).value,
                                     asset_subclass_allocation |->
                                        account_asset_subclass_allocation(tree, c, s, a).value]
                                    @@
                                    tree.asset_classes[c].asset_subclasses[s].accounts[a]]]]]]]

\* st is [tree, errors, exc]
allocation_pass(st) ==
    LET raises == allocation_raises(st.tree) \ {"none"}
    IN  IF raises # {}
        THEN [st EXCEPT !.exc = Raised(CHOOSE t \in raises : TRUE, "_portfolio_data")]
        ELSE [st EXCEPT !.tree = allocated_tree(@)]

(***************************************************************************)
(* The column schema (lines 218-232) and insert_rowspans (lines 460-537).  *)
(***************************************************************************)
DictType == "<class 'dict'>"
AccountsDictType == "<class 'fava_classy_portfolio.AccountsDict'>"
DecimalType == "<class 'decimal.Decimal'>"
DecimalPercentType == "<class 'fava_classy_portfolio.DecimalPercent'>"
DecimalIncomeGainLossType == "<class 'fava_classy_portfolio.DecimalIncomeGainLoss'>"
DecimalPercentGainLossType == "<class 'fava_classy_portfolio.DecimalPercentGainLoss'>"
DateType == "<class 'datetime.date'>"

types ==
    << <<"portfolio_total", DecimalType>>,
       <<"asset_classes", DictType>>,
       <<"portfolio_allocation", DecimalPercentType>>,
       <<"asset_class_total", DecimalType>>,
       <<"asset_subclasses", DictType>>,
       <<"asset_class_allocation", DecimalPercentType>>,
       <<"asset_subclass_total", DecimalType>>,
       <<"accounts", AccountsDictType>>,
       <<"asset_subclass_allocation", DecimalPercentType>>,
       <<"balance_market_value", DecimalType>>,
       <<"income_gain_loss", DecimalIncomeGainLossType>>,
       <<"gain_loss_percentage", DecimalPercentGainLossType>>,
       <<"latest_price_date", DateType>> >>

Cell(value, rowspan) == <<value, [rowspan |-> rowspan]>>

\* Mutation of rowsum_of: the inner entries are counted, their rowspans not summed.
rowsum_count_keys(new_data_inner) == Cardinality(DOMAIN new_data_inner)

\* lines 476-478 and 513-515: the sum of the rowspans of the inner entries
rowsum_of(new_data_inner) ==
    SumOver(DOMAIN new_data_inner,
            [k \in DOMAIN new_data_inner |-> new_data_inner[k][2].rowspan])

\* Index of the first column the loop treats as a group, 0 when there is none.
FirstGroup(coltypes, groupTypes) ==
    IF \E i \in 1..Len(coltypes) : coltypes[i][2] \in groupTypes
    THEN CHOOSE i \in 1..Len(coltypes) :
            /\ coltypes[i][2] \in groupTypes
            /\ \A j \in 1..(i - 1) : coltypes[j][2] \notin groupTypes
    ELSE 0

ColumnNames(coltypes, from, to) == {coltypes[i][1] : i \in from..to}

RECURSIVE insert_rowspans(_, _, _)
insert_rowspans(data, coltypes, isStart) ==
    IF isStart
    THEN LET g == FirstGroup(coltypes, {DictType})
         IN  IF g = 0
             THEN [col \in ColumnNames(coltypes, 1, Len(coltypes)) |->
                      Cell(data[col], 1)]
             ELSE LET new_data_inner ==
                          insert_rowspans(data[coltypes[g][1]],
                                          SubSeq(coltypes, g + 1, Len(coltypes)), FALSE)
                      rowsum == rowsum_of(new_data_inner)
                  IN  [col \in ColumnNames(coltypes, 1, g) |->
                          IF col = coltypes[g][1]
                          THEN new_data_inner
                          ELSE Cell(data[col], rowsum)]
    ELSE LET g == FirstGroup(coltypes, {DictType, AccountsDictType})
         IN  IF g = 0
             THEN [key \in DOMAIN data |->
                      Cell([col \in ColumnNames(coltypes, 1, Len(coltypes)) |->
                               Cell(data[key][col], 1)]
                           @@ data[key], 1)]
             ELSE [key \in DOMAIN data |->
                      LET new_data_inner ==
                              insert_rowspans(data[key][coltypes[g][1]],
                                              SubSeq(coltypes, g + 1, Len(coltypes)),
                                              FALSE)
                          rowsum == rowsum_of(new_data_inner)
                      IN  Cell([col \in ColumnNames(coltypes, 1, g) |->
                                   IF col = coltypes[g][1]
                                   THEN new_data_inner
                                   ELSE Cell(data[key][col], rowsum)]
                               @@ data[key], rowsum)]

(***************************************************************************)
(* The configured views and the account selection (lines 63-73, 103-113,   *)
(* 129-143).  The regular expressions are not modelled: matched[j] is the  *)
(* sequence of account names the pattern of view j matches, taken from     *)
(* tree.keys() for a name pattern (dict keys, so without repetition) and   *)
(* from the ledger's Open entries for a metadata pattern.                  *)
(***************************************************************************)
NamePatternOption == <<"account_name_pattern", "assets:.*">>
MetadataPatternOption == <<"account_open_metadata_pattern", <<"portfolio", "retirement">> >>
InvalidOption == <<"account_type_pattern", "assets">>
Options == {NamePatternOption, MetadataPatternOption, InvalidOption}

\* str.capitalize on the patterns of Options
capitalize(pattern) ==
    CASE pattern = "assets:.*" -> "Assets:.*"
      [] pattern = "retirement" -> "Retirement"
      [] OTHER -> pattern

RECURSIVE select_by_name(_)
select_by_name(keys) ==
    IF keys = <<>> THEN <<>>
    ELSE LET selected_accounts == select_by_name(SubSeq(keys, 1, Len(keys) - 1))
             acct == keys[Len(keys)]
         IN  IF \A i \in 1..Len(selected_accounts) : selected_accounts[i] # acct
             THEN Append(selected_accounts, acct)
             ELSE selected_accounts

select_by_metadata(entry_accounts) == entry_accounts

title_of(option) ==
    IF option[1] = "account_name_pattern"
    THEN capitalize(option[2])
    ELSE capitalize(option[2][2])

subtitle_of(option) ==
    IF option[1] = "account_name_pattern"
    THEN "Account names matching: '" \o option[2] \o "'"
    ELSE "Accounts with '" \o option[2][1] \o "' metadata matching: '"
             \o option[2][2] \o "'"

\* lines 75-82: portfolio is (title, subtitle, (portfolio_tree, types, errors))
rowspanned(portfolio) ==
    <<portfolio[1],
      portfolio[2],
      <<insert_rowspans(portfolio[3][1], portfolio[3][2], TRUE), portfolio[3][2]>> >>

(***************************************************************************)
(* _portfolio_data as a function of its node list (lines 201-441): the     *)
(* node loop, then the allocation pass unless an exception has left it.    *)
(***************************************************************************)
RECURSIVE node_loop(_, _)
node_loop(nodes, k) ==
    IF k = 0
    THEN [tree |-> new_portfolio_tree, errors |-> <<>>, exc |-> NoException]
    ELSE LET st == node_loop(nodes, k - 1)
         IN  IF st.exc # NoException THEN st ELSE process_node(st, ledger[nodes[k]])

_portfolio_data(nodes) ==
    LET st == node_loop(nodes, Len(nodes))
    IN  IF st.exc # NoException THEN st ELSE allocation_pass(st)

(***************************************************************************)
(* The state machine.                                                      *)
(***************************************************************************)
InitWith(maxViews, accounts, maxNodes) ==
    /\ config \in SeqsUpTo(Options, maxViews)
    /\ matched \in [1..Len(config) -> SeqsUpTo(accounts, maxNodes)]
    /\ \A j \in 1..Len(config) :
          /\ config[j] = NamePatternOption => NoDuplicates(matched[j])
          /\ config[j] = InvalidOption => matched[j] = <<>>
    /\ portfolios = <<>>
    /\ optIdx = 0
    /\ pc = "for_option"
    /\ selected_nodes = <<>>
    /\ nodeIdx = 0
    /\ portfolio_tree = new_portfolio_tree
    /\ errors = <<>>
    /\ exc = NoException

ViewAccounts == {"Assets:A", "Assets:F", "Assets:H"}

Init == InitWith(1, Accounts, MaxNodes)
InitViews == InitWith(MaxViews, ViewAccounts, MaxViewNodes)

CallPortfolioData(nodes) ==
    /\ selected_nodes' = nodes
    /\ nodeIdx' = 0
    /\ portfolio_tree' = new_portfolio_tree
    /\ errors' = <<>>
    /\ pc' = "for_node"
    /\ UNCHANGED <<config, matched, portfolios, optIdx, exc>>

\* lines 65-66, 103-112
AccountNamePattern ==
    /\ pc = "for_option"
    /\ optIdx < Len(config)
    /\ config[optIdx + 1][1] = "account_name_pattern"
    /\ CallPortfolioData(select_by_name(matched[optIdx + 1]))

\* lines 67-70, 129-142
AccountMetadataPattern ==
    /\ pc = "for_option"
    /\ optIdx < Len(config)
    /\ config[optIdx + 1][1] = "account_open_metadata_pattern"
    /\ CallPortfolioData(select_by_metadata(matched[optIdx + 1]))

\* lines 71-73, caught at line 85
RaiseInvalidOption ==
    /\ pc = "for_option"
    /\ optIdx < Len(config)
    /\ config[optIdx + 1][1] \notin {"account_name_pattern", "account_open_metadata_pattern"}
    /\ exc' = Raised("FavaAPIError", "portfolio_accounts")
    /\ pc' = "return"
    /\ UNCHANGED <<config, matched, portfolios, optIdx, selected_nodes, nodeIdx,
                   portfolio_tree, errors>>

\* lines 235-348: one iteration; an exception leaves through line 85
ProcessNode ==
    /\ pc = "for_node"
    /\ nodeIdx < Len(selected_nodes)
    /\ LET st == process_node([tree |-> portfolio_tree, errors |-> errors, exc |-> exc],
                              ledger[selected_nodes[nodeIdx + 1]])
       IN  /\ portfolio_tree' = st.tree
           /\ errors' = st.errors
           /\ exc' = st.exc
           /\ pc' = IF st.exc # NoException THEN "return" ELSE "for_node"
    /\ nodeIdx' = nodeIdx + 1
    /\ UNCHANGED <<config, matched, portfolios, optIdx, selected_nodes>>

\* lines 352-441: the loop is over, the second pass runs and the data is returned
AllocationPass ==
    /\ pc = "for_node"
    /\ nodeIdx = Len(selected_nodes)
    /\ LET st == allocation_pass([tree |-> portfolio_tree, errors |-> errors, exc |-> exc])
       IN  /\ portfolio_tree' = st.tree
           /\ errors' = st.errors
           /\ exc' = st.exc
           /\ pc' = IF st.exc # NoException THEN "return" ELSE "insert_rowspans"
    /\ UNCHANGED <<config, matched, portfolios, optIdx, selected_nodes, nodeIdx>>

\* lines 75-83
AppendPortfolio ==
    /\ pc = "insert_rowspans"
    /\ LET option == config[optIdx + 1]
           portfolio == <<title_of(option), subtitle_of(option),
                          <<portfolio_tree, types, errors>> >>
       IN  portfolios' = Append(portfolios, rowspanned(portfolio))
    /\ optIdx' = optIdx + 1
    /\ pc' = "for_option"
    /\ selected_nodes' = <<>>
    /\ nodeIdx' = 0
    /\ portfolio_tree' = new_portfolio_tree
    /\ errors' = <<>>
    /\ UNCHANGED <<config, matched, exc>>

\* line 88, the loop having run out of options
ReturnPortfolios ==
    /\ pc = "for_option"
    /\ optIdx = Len(config)
    /\ pc' = "return"
    /\ UNCHANGED <<config, matched, portfolios, optIdx, selected_nodes, nodeIdx,
                   portfolio_tree, errors, exc>>

Next ==
    \/ AccountNamePattern
    \/ AccountMetadataPattern
    \/ RaiseInvalidOption
    \/ ProcessNode
    \/ AllocationPass
    \/ AppendPortfolio
    \/ ReturnPortfolios

Spec == Init /\ [][Next]_vars
SpecViews == InitViews /\ [][Next]_vars

(***************************************************************************)
(* Properties.  The tree _portfolio_data returns is portfolio_tree in the  *)
(* states with pc = "insert_rowspans" (line 441 passed, line 75 not yet).  *)
(***************************************************************************)
ClassTotal(tree, c) ==
    IF c \in ClassesOf(tree) THEN tree.asset_classes[c].asset_class_total ELSE 0

SubclassTotal(tree, c, s) ==
    IF c \in ClassesOf(tree) /\ s \in SubclassesOf(tree, c)
    THEN tree.asset_classes[c].asset_subclasses[s].asset_subclass_total
    ELSE 0

AccountRecords(tree) ==
    UNION {UNION {{tree.asset_classes[c].asset_subclasses[s].accounts[a] :
                     a \in AccountsOf(tree, c, s)} :
                  s \in SubclassesOf(tree, c)} :
           c \in ClassesOf(tree)}

\* C1: in the tree _portfolio_data returns, portfolio_total is the sum of the
\* asset_class_total of all classes and every asset_class_total is the sum of
\* the asset_subclass_total of the class's subclasses.
C1_TotalsAddUp ==
    pc = "insert_rowspans" =>
        /\ portfolio_tree.portfolio_total =
              SumOver(ClassesOf(portfolio_tree),
                      [c \in ClassesOf(portfolio_tree) |-> ClassTotal(portfolio_tree, c)])
        /\ \A c \in ClassesOf(portfolio_tree) :
              ClassTotal(portfolio_tree, c) =
                  SumOver(SubclassesOf(portfolio_tree, c),
                          [s \in SubclassesOf(portfolio_tree, c) |->
                              SubclassTotal(portfolio_tree, c, s)])

\* A returned tree built from a priced account, an account without price and
\* an account in another currency, with two classes and a non-zero total.
C1_Witness ==
    /\ pc = "insert_rowspans"
    /\ Len(errors) = 1
    /\ \E r \in AccountRecords(portfolio_tree) : r.latest_price_date # None
    /\ \E r \in AccountRecords(portfolio_tree) : r.latest_price_date = None
    /\ Cardinality(ClassesOf(portfolio_tree)) >= 2
    /\ portfolio_tree.portfolio_total # 0

RowspanOf(cell) == cell[2].rowspan

AccountColumns ==
    {"asset_subclass_allocation", "balance_market_value", "income_gain_loss",
     "gain_loss_percentage", "latest_price_date"}

RowspansAgree(table) ==
    /\ RowspanOf(table.portfolio_total) =
          SumOver(DOMAIN table.asset_classes,
                  [c \in DOMAIN table.asset_classes |-> RowspanOf(table.asset_classes[c])])
    /\ \A c \in DOMAIN table.asset_classes :
          LET class == table.asset_classes[c][1]
              span == SumOver(DOMAIN class.asset_subclasses,
                              [s \in DOMAIN class.asset_subclasses |->
                                  RowspanOf(class.asset_subclasses[s])])
          IN  /\ RowspanOf(table.asset_classes[c]) = span
              /\ RowspanOf(class.portfolio_allocation) = span
              /\ RowspanOf(class.asset_class_total) = span
              /\ \A s \in DOMAIN class.asset_subclasses :
                    LET subclass == class.asset_subclasses[s][1]
                        n == Cardinality(DOMAIN subclass.accounts)
                    IN  /\ RowspanOf(class.asset_subclasses[s]) = n
                        /\ RowspanOf(subclass.asset_class_allocation) = n
                        /\ RowspanOf(subclass.asset_subclass_total) = n
                        /\ \A a \in DOMAIN subclass.accounts :
                              /\ RowspanOf(subclass.accounts[a]) = 1
                              /\ \A col \in AccountColumns :
                                    RowspanOf(subclass.accounts[a][1][col]) = 1

\* C2: in every flattened table, a class key and the class's portfolio_allocation
\* and asset_class_total carry the sum of the rowspans of the class's subclass
\* entries, a subclass key and the subclass's asset_class_allocation and
\* asset_subclass_total carry the number of its accounts, portfolio_total carries
\* the sum of the class rowspans, and account keys and account cells carry 1.
C2_Rowspans ==
    \A j \in 1..Len(portfolios) : RowspansAgree(portfolios[j][3][1])

\* A flattened table with a class of two subclasses, one holding two accounts.
C2_Witness ==
    \E j \in 1..Len(portfolios) :
        LET table == portfolios[j][3][1]
        IN  \E c \in DOMAIN table.asset_classes :
                /\ RowspanOf(table.asset_classes[c]) = 3
                /\ Cardinality(DOMAIN table.asset_classes[c][1].asset_subclasses) = 2

\* a is x = n / d * 100 rounded half-even to hundredths (d # 0)
IsHalfEvenPercent(a, n, d) ==
    LET D == IF d < 0 THEN -d ELSE d
        diff == a * d - n * 10000
        dist == IF diff < 0 THEN -diff ELSE diff
    IN  /\ 2 * dist <= D
        /\ 2 * dist = D => a % 2 = 0

IsPct(a, n, d) == IF d = 0 THEN a = 0 ELSE IsHalfEvenPercent(a, n, d)

\* The six allocations of a tree, each with its numerator and its denominator.
Allocations(tree) ==
    UNION {
        {<<tree.asset_classes[c].portfolio_allocation,
           tree.asset_classes[c].asset_class_total, tree.portfolio_total>>}
        \cup UNION {
            {<<tree.asset_classes[c].asset_subclasses[s].portfolio_allocation,
               tree.asset_classes[c].asset_subclasses[s].asset_subclass_total,
               tree.portfolio_total>>,
             <<tree.asset_classes[c].asset_subclasses[s].asset_class_allocation,
               tree.asset_classes[c].asset_subclasses[s].asset_subclass_total,
               tree.asset_classes[c].asset_class_total>>}
            \cup UNION {
                LET r == tree.asset_classes[c].asset_subclasses[s].accounts[a]
                IN  {<<r.portfolio_allocation, r.balance_market_value,
                       tree.portfolio_total>>,
                     <<r.asset_class_allocation, r.balance_market_value,
                       tree.asset_classes[c].asset_class_total>>,
                     <<r.asset_subclass_allocation, r.balance_market_value,
                       tree.asset_classes[c].asset_subclasses[s].asset_subclass_total>>} :
                a \in AccountsOf(tree, c, s)} :
            s \in SubclassesOf(tree, c)} :
        c \in ClassesOf(tree)}

\* C3: each of the six allocations of the returned tree is pct(n, d) of its own
\* numerator and denominator (0 when d is 0, else n/d*100 rounded half-even to
\* two places), the allocation pass never raises a division error, and classes
\* "stock" worth 100 and "bond" worth 300 in a portfolio of 400 get 25.00 and 75.00.
C3_Allocations ==
    /\ exc.in # "_portfolio_data"
    /\ pc = "insert_rowspans" =>
          /\ \A x \in Allocations(portfolio_tree) : IsPct(x[1], x[2], x[3])
          /\ ( /\ ClassesOf(portfolio_tree) = {"stock", "bond"}
               /\ ClassTotal(portfolio_tree, "stock") = 100
               /\ ClassTotal(portfolio_tree, "bond") = 300 )
             => /\ portfolio_tree.portfolio_total = 400
                /\ portfolio_tree.asset_classes["stock"].portfolio_allocation = 2500
                /\ portfolio_tree.asset_classes["bond"].portfolio_allocation = 7500

\* The returned tree of A (stock, 100), B (bond, 300) and a zero-valued account
\* alone in its subclass: 25.00 and 75.00 beside a subclass total of zero.
C3_Witness ==
    /\ pc = "insert_rowspans"
    /\ portfolio_tree.portfolio_total = 400
    /\ ClassesOf(portfolio_tree) = {"stock", "bond"}
    /\ portfolio_tree.asset_classes["stock"].portfolio_allocation = 2500
    /\ portfolio_tree.asset_classes["bond"].portfolio_allocation = 7500
    /\ \E s \in SubclassesOf(portfolio_tree, "stock") :
          /\ SubclassTotal(portfolio_tree, "stock", s) = 0
          /\ AccountsOf(portfolio_tree, "stock", s) # {}

\* The node has a balance and its converted cost is not in the operating currency.
MismatchedCurrency(node) ==
    /\ node.balance # <<>>
    /\ _convert_cost(node).raised = "none"
    /\ _convert_cost(node).currency # operating_currency

AllClasses == {"stock", "bond", "noclass"}
AllSubclasses == {"large", "small", "intl", "nosubclass"}

\* C4: the loop iteration of an account whose converted cost is in another
\* currency leaves portfolio_total, every class total and every subclass total
\* as they were, appends the one message naming the account and the operating
\* currency to errors, raises nothing and stays in the loop.
C4_MismatchedCurrency ==
    [][ ( /\ pc = "for_node"
          /\ nodeIdx < Len(selected_nodes)
          /\ MismatchedCurrency(ledger[selected_nodes[nodeIdx + 1]]) )
        => ( /\ portfolio_tree'.portfolio_total = portfolio_tree.portfolio_total
             /\ \A c \in AllClasses :
                   /\ ClassTotal(portfolio_tree', c) = ClassTotal(portfolio_tree, c)
                   /\ \A s \in AllSubclasses :
                         SubclassTotal(portfolio_tree', c, s) =
                             SubclassTotal(portfolio_tree, c, s)
             /\ errors' = Append(errors,
                    "account " \o selected_nodes[nodeIdx + 1]
                        \o " has balances not in operating currency USD")
             /\ exc' = NoException
             /\ pc' = "for_node"
             /\ nodeIdx' = nodeIdx + 1 ) ]_vars

\* A tree returned after a mismatched account came first and a valued one after it.
C4_Witness ==
    /\ pc = "insert_rowspans"
    /\ Len(selected_nodes) >= 2
    /\ MismatchedCurrency(ledger[selected_nodes[1]])
    /\ errors = <<"account " \o selected_nodes[1]
                    \o " has balances not in operating currency USD">>
    /\ portfolio_tree.portfolio_total # 0

(***************************************************************************)
(* The views of portfolio_accounts (checked under SpecViews).              *)
(***************************************************************************)
SelectedOf(j) ==
    IF config[j][1] = "account_name_pattern"
    THEN select_by_name(matched[j])
    ELSE select_by_metadata(matched[j])

\* View j fails when built on its own: its rule kind is unknown or building it raises.
ViewFails(j) ==
    \/ config[j][1] \notin {"account_name_pattern", "account_open_metadata_pattern"}
    \/ _portfolio_data(SelectedOf(j)).exc # NoException

\* C5: when portfolio_accounts has returned, every view of the configuration
\* that does not itself fail has its entry in the returned list, whether it
\* stands before or after a failed view.
C5_OtherViewsKept ==
    pc = "return" =>
        /\ Len(portfolios) = Cardinality({j \in 1..Len(config) : ~ViewFails(j)})
        /\ \A j \in 1..Len(config) :
              ~ViewFails(j) =>
                  \E k \in 1..Len(portfolios) :
                      /\ portfolios[k][1] = title_of(config[j])
                      /\ portfolios[k][2] = subtitle_of(config[j])

\* C6: the k-th tuple appended is (title, subtitle, (flattened table, errors))
\* of the k-th view, errors being the warnings _portfolio_data produced for it.
C6_ViewTuple ==
    \A k \in 1..Len(portfolios) :
        LET data == _portfolio_data(SelectedOf(k))
        IN  /\ Len(portfolios[k]) = 3
            /\ portfolios[k][1] = title_of(config[k])
            /\ portfolios[k][2] = subtitle_of(config[k])
            /\ Len(portfolios[k][3]) = 2
            /\ portfolios[k][3][1] = insert_rowspans(data.tree, types, TRUE)
            /\ portfolios[k][3][2] = data.errors

(***************************************************************************)
(* Membership of the accounts in the returned tree.                        *)
(***************************************************************************)
PairsHolding(tree, account_name) ==
    {p \in AllClasses \X AllSubclasses :
        /\ p[1] \in ClassesOf(tree)
        /\ p[2] \in SubclassesOf(tree, p[1])
        /\ account_name \in AccountsOf(tree, p[1], p[2])}

\* C7 as stated: every node of the input list is an entry of the accounts
\* mapping of exactly one (class, subclass) pair of the returned tree.
C7_EveryNodeOnce ==
    pc = "insert_rowspans" =>
        \A i \in 1..Len(selected_nodes) :
            Cardinality(PairsHolding(portfolio_tree, selected_nodes[i])) = 1

\* C7 amended: a node of the input list with a non-empty balance and a
\* converted cost in the operating currency is an entry of the accounts mapping
\* of exactly one pair, the one its commodity is classified under; a node with
\* an empty balance or a cost in another currency is an entry of none; and the
\* tree holds no account that is not in the list.
C7_ValuedNodesOnce ==
    pc = "insert_rowspans" =>
        /\ \A i \in 1..Len(selected_nodes) :
              LET node == ledger[selected_nodes[i]]
                  pairs == PairsHolding(portfolio_tree, node.name)
              IN  IF node.balance = <<>> \/ MismatchedCurrency(node)
                  THEN pairs = {}
                  ELSE pairs = {<<asset_class_of(node_commodity(node)),
                                  asset_subclass_of(node_commodity(node))>>}
        /\ \A c \in ClassesOf(portfolio_tree) :
              \A s \in SubclassesOf(portfolio_tree, c) :
                  AccountsOf(portfolio_tree, c, s) \subseteq
                      {selected_nodes[i] : i \in 1..Len(selected_nodes)}

\* A returned tree of a list with an empty account, an account in another
\* currency and an account worth zero, the last recorded in the tree.
C7_Witness ==
    /\ pc = "insert_rowspans"
    /\ \E i \in 1..Len(selected_nodes) : ledger[selected_nodes[i]].balance = <<>>
    /\ \E i \in 1..Len(selected_nodes) : MismatchedCurrency(ledger[selected_nodes[i]])
    /\ \E r \in AccountRecords(portfolio_tree) : r.balance_market_value = 0

(***************************************************************************)
(* Zero allocations.                                                       *)
(***************************************************************************)
AbsVal(x) == IF x < 0 THEN -x ELSE x

\* C8 as stated: an allocation of the returned tree is 0 exactly when its
\* denominator (portfolio, class or subclass total) is 0.
C8_ZeroIffZeroTotal ==
    pc = "insert_rowspans" =>
        \A x \in Allocations(portfolio_tree) : (x[1] = 0) <=> (x[3] = 0)

\* C8 amended: an allocation is 0 whenever its denominator is 0, and under a
\* non-zero denominator it is 0 only when the share rounds to 0.00 (the child
\* total or account value is at most 0.005 percent of it, as when it is 0).
C8_ZeroAllocation ==
    pc = "insert_rowspans" =>
        \A x \in Allocations(portfolio_tree) :
            /\ x[3] = 0 => x[1] = 0
            /\ (x[3] # 0 /\ x[1] = 0) => 2 * AbsVal(x[2]) * 10000 <= AbsVal(x[3])

\* A returned tree with an allocation of 0 under a non-zero total beside an
\* allocation of 0 under a zero total.
C8_Witness ==
    /\ pc = "insert_rowspans"
    /\ \E x \in Allocations(portfolio_tree) : x[1] = 0 /\ x[3] # 0
    /\ \E x \in Allocations(portfolio_tree) : x[1] = 0 /\ x[3] = 0
    /\ \E x \in Allocations(portfolio_tree) : x[1] # 0

(***************************************************************************)
(* Accounts without cost entries and accounts of cost basis zero.          *)
(***************************************************************************)
\* The node the loop of _portfolio_data took last in the call under way.
LastNodeTaken == ledger[selected_nodes[nodeIdx]]
InCall == pc \in {"for_node", "return"} /\ nodeIdx >= 1

\* C9: once the loop has taken an account with a non-empty balance and no cost
\* entries, nothing is raised and the account is recorded under its class and
\* subclass with market value, gain/loss and gain/loss percentage zero and no
\* price date, the totals being as the tree built without it has them.
C9_NoCostRecordedAsEmpty ==
    ( /\ InCall
      /\ LastNodeTaken.balance # <<>>
      /\ LastNodeTaken.cost = <<>> )
    => LET c == asset_class_of(node_commodity(LastNodeTaken))
           s == asset_subclass_of(node_commodity(LastNodeTaken))
           before == node_loop(selected_nodes, nodeIdx - 1).tree
       IN  /\ exc = NoException
           /\ c \in ClassesOf(portfolio_tree)
           /\ s \in SubclassesOf(portfolio_tree, c)
           /\ LastNodeTaken.name \in AccountsOf(portfolio_tree, c, s)
           /\ LET r == portfolio_tree.asset_classes[c].asset_subclasses[s]
                           .accounts[LastNodeTaken.name]
              IN  /\ r.balance_market_value = 0
                  /\ r.income_gain_loss = Some(0)
                  /\ r.gain_loss_percentage = Some(Fraction(0, 1))
                  /\ r.latest_price_date = None
           /\ portfolio_tree.portfolio_total = before.portfolio_total
           /\ ClassTotal(portfolio_tree, c) = ClassTotal(before, c)
           /\ SubclassTotal(portfolio_tree, c, s) = SubclassTotal(before, c, s)

\* C10: once the loop has taken an account whose cost basis in the operating
\* currency is 0, with or without a known price, no division error is raised.
C10_ZeroCostNoDivisionError ==
    ( /\ InCall
      /\ LastNodeTaken.balance # <<>>
      /\ _convert_cost(LastNodeTaken).raised = "none"
      /\ _convert_cost(LastNodeTaken).currency = operating_currency
      /\ _convert_cost(LastNodeTaken).number = 0 )
    => exc.type \notin {"DivisionByZero", "InvalidOperation"}

(***************************************************************************)
(* Subclass totals against the stored records, and empty groups.           *)
(***************************************************************************)
\* C11: in the returned tree, whatever the node list (a name may occur in it
\* more than once), each asset_subclass_total is the sum of balance_market_value
\* over the records of the subclass's accounts mapping.
C11_SubclassTotalIsSumOfRecords ==
    pc = "insert_rowspans" =>
        \A c \in ClassesOf(portfolio_tree) :
            \A s \in SubclassesOf(portfolio_tree, c) :
                SubclassTotal(portfolio_tree, c, s) =
                    SumOver(AccountsOf(portfolio_tree, c, s),
                            [a \in AccountsOf(portfolio_tree, c, s) |->
                                portfolio_tree.asset_classes[c].asset_subclasses[s]
                                    .accounts[a].balance_market_value])

\* C12: every class and every subclass of the returned tree holds at least one
\* account record, and in every flattened table the class keys, the subclass
\* keys and the class and subclass scalar cells have rowspan >= 1, a rowspan of
\* 0 standing on portfolio_total only, and only when the tree has no class.
C12_NoEmptyGroup ==
    /\ pc = "insert_rowspans" =>
          \A c \in ClassesOf(portfolio_tree) :
              /\ SubclassesOf(portfolio_tree, c) # {}
              /\ \A s \in SubclassesOf(portfolio_tree, c) :
                    AccountsOf(portfolio_tree, c, s) # {}
    /\ \A j \in 1..Len(portfolios) :
          LET table == portfolios[j][3][1]
          IN  /\ RowspanOf(table.portfolio_total) = 0 => DOMAIN table.asset_classes = {}
              /\ \A c \in DOMAIN table.asset_classes :
                    LET class == table.asset_classes[c][1]
                    IN  /\ RowspanOf(table.asset_classes[c]) >= 1
                        /\ RowspanOf(class.portfolio_allocation) >= 1
                        /\ RowspanOf(class.asset_class_total) >= 1
                        /\ \A s \in DOMAIN class.asset_subclasses :
                              LET subclass == class.asset_subclasses[s][1]
                              IN  /\ RowspanOf(class.asset_subclasses[s]) >= 1
                                  /\ RowspanOf(subclass.asset_class_allocation) >= 1
                                  /\ RowspanOf(subclass.asset_subclass_total) >= 1

====
